---- MODULE Spec2Model ----
(***************************************************************************)
(* Model of the reaction engine of the chemistry backend                   *)
(* (backend/chemistry_engine/reaction_engine.py, ReactionEngineService).   *)
(*                                                                         *)
(* Text is a sequence of tokens: a formula name, "+", "=", " " (one        *)
(* whitespace character), one character of the separator of the rendered   *)
(* equation (named by its code point) or a decimal number (a rendered      *)
(* coefficient).                                                           *)
(* Decimal numbers are integers counting ten-thousandths (Scale).          *)
(* An optional value is <<>> (None) or <<v>>.                              *)
(*                                                                         *)
(* Spec runs one call of one engine method.  SpecConc runs callers that    *)
(* share the module-level instance reaction_engine_service: frames holds   *)
(* the arguments of each caller's invocation in progress, returned the     *)
(* calls that have returned with their values, last the latest of them.    *)
(* SpecServices runs the two module-level objects that keep something      *)
(* across calls: cache is CompoundLookupService.cache (succeeded the cids   *)
(* PubChem has served, lookup the latest get_compound_info call),          *)
(* ai_service the global _ai_service of ai_chemistry_service.py            *)
(* (constructions the keys AIChemistryService objects were built with,     *)
(* got the latest get_ai_chemistry_service call).                          *)
(***************************************************************************)
EXTENDS Integers, Sequences, FiniteSets, TLC

VARIABLES pc, call, result, prev, frames, returned, last,
          cache, succeeded, lookup, ai_service, constructions, got

\* the state of the services that keep something across calls
servicevars == <<cache, succeeded, lookup, ai_service, constructions, got>>

vars == <<pc, call, result, prev, frames, returned, last, servicevars>>

\* ------------------------------------------------------------------ bounds
\* longest equation text drawn, in tokens
MaxLen == 5
\* largest coefficient the balancer searches
MaxCoef == 4
\* callers that use the shared engine instance at the same time
NumCallers == 2
\* compound ids looked up: 1..MaxCid
MaxCid == 3
\* atomic numbers the element search runs over: 1..MaxZ
MaxZ == 18
\* most items of a formula sent for analysis
MaxItems == 2

\* ------------------------------------------------------- program constants
\* round(x, 4)
RoundDigits == 4
\* round(ph, 2)
PhDigits == 2
\* ph + poh
PhPlusPoh == 14
\* the neutral default
NeutralPh == 7

RECURSIVE Pow10(_)
Pow10(n) == IF n = 0 THEN 1 ELSE 10 * Pow10(n - 1)

Scale == Pow10(RoundDigits)

None == <<>>
Some(v) == <<v>>

NoResult == [pending |-> TRUE]

\* ----------------------------------------------------------------- numbers
Abs(n) == IF n < 0 THEN -n ELSE n

RECURSIVE GCD(_, _)
GCD(a, b) == IF b = 0 THEN a ELSE GCD(b, a % b)

RECURSIVE GCDSet(_)
GCDSet(S) ==
    IF S = {} THEN 0
    ELSE LET x == CHOOSE x \in S : TRUE IN GCD(x, GCDSet(S \ {x}))

RECURSIVE SumOver(_, _)
SumOver(f, S) ==
    IF S = {} THEN 0
    ELSE LET x == CHOOSE x \in S : TRUE IN f[x] + SumOver(f, S \ {x})

\* n / d rounded to the nearest integer, ties to even (Python's round), d > 0
RoundDiv(n, d) ==
    LET q == n \div d
        r == n - q * d
    IN  IF 2 * r < d THEN q
        ELSE IF 2 * r > d THEN q + 1
        ELSE IF q % 2 = 0 THEN q ELSE q + 1

\* Decimal ties the float cannot hold exactly: the doubles nearest to 0.015 and
\* to 13.985 lie below them, so round(x, 2) goes down there.
TiesBelow == {150, 139850}

\* round(x, digits) of a scaled number, still scaled
Round_floor(x, digits) ==
    LET unit == Pow10(RoundDigits - digits) IN (x \div unit) * unit

Round(x, digits) ==
    LET unit == Pow10(RoundDigits - digits) IN
    IF x \in TiesBelow /\ 2 * (x % unit) = unit THEN (x \div unit) * unit
    ELSE RoundDiv(x, unit) * unit

\* ------------------------------------------------------------------- text
\* str.split(sep): the segments between the separators, count(sep) + 1 of them
RECURSIVE split(_, _)
split(s, sep) ==
    IF \A i \in 1..Len(s) : s[i] # sep THEN <<s>>
    ELSE LET i == CHOOSE i \in 1..Len(s) :
                      s[i] = sep /\ \A j \in 1..(i - 1) : s[j] # sep
         IN  <<SubSeq(s, 1, i - 1)>> \o split(SubSeq(s, i + 1, Len(s)), sep)

\* str.strip(): leading and trailing whitespace removed
strip_none(s) == s

RECURSIVE strip(_)
strip(s) ==
    IF s = <<>> THEN s
    ELSE IF Head(s) = " " THEN strip(Tail(s))
    ELSE IF s[Len(s)] = " " THEN strip(SubSeq(s, 1, Len(s) - 1))
    ELSE s

\* sep.join(parts)
RECURSIVE join(_, _)
join(parts, sep) ==
    IF parts = <<>> THEN <<>>
    ELSE IF Len(parts) = 1 THEN parts[1]
    ELSE parts[1] \o sep \o join(Tail(parts), sep)

Range(s) == {s[i] : i \in 1..Len(s)}

\* -------------------------------------------------------------- chemistry
Elements == {"C", "H", "O"}

\* element counts of the formulas the parser knows
Composition ==
    [ H2   |-> [C |-> 0, H |-> 2, O |-> 0],
      O2   |-> [C |-> 0, H |-> 0, O |-> 2],
      O3   |-> [C |-> 0, H |-> 0, O |-> 3],
      H2O  |-> [C |-> 0, H |-> 2, O |-> 1],
      H2O2 |-> [C |-> 0, H |-> 2, O |-> 2],
      CH4  |-> [C |-> 1, H |-> 4, O |-> 0],
      CO2  |-> [C |-> 1, H |-> 0, O |-> 2] ]

Formulas == DOMAIN Composition

\* position of a formula name in Python's string order
FormulaRank ==
    [ CH4 |-> 1, CO2 |-> 2, H2 |-> 3, H2O |-> 4, H2O2 |-> 5, O2 |-> 6, O3 |-> 7 ]

\* a species string parses as a formula: it is exactly one known formula name
IsFormula(species) == Len(species) = 1 /\ species[1] \in Formulas

Atoms(species, e) == Composition[species[1]][e]

ElementsOf(S) == {e \in Elements : \E s \in S : Atoms(s, e) > 0}

\* sorted(set of species names)
RECURSIVE sorted(_)
sorted(S) ==
    IF S = {} THEN <<>>
    ELSE LET m == CHOOSE m \in S :
                      \A s \in S : FormulaRank[m[1]] <= FormulaRank[s[1]]
         IN  <<m>> \o sorted(S \ {m})

\* the coefficient vector c balances reactants against products, element by element
Balances(c, reactants, products) ==
    \A e \in Elements :
        SumOver([s \in reactants |-> c[s] * Atoms(s, e)], reactants)
          = SumOver([s \in products |-> c[s] * Atoms(s, e)], products)

\* the positive integer solutions whose entries have no common factor
PrimitiveSolutions(reactants, products) ==
    {c \in [reactants \cup products -> 1..MaxCoef] :
        /\ Balances(c, reactants, products)
        /\ GCDSet({c[s] : s \in reactants \cup products}) = 1}

Raise(msg) == [ok |-> FALSE, error |-> msg]

\* the balancer: parse, check the element sets, solve for the minimal positive
\* integer vector. The keys come back in sorted order.
balance_stoichiometry(reactants, products) ==
    IF \E s \in reactants \cup products : ~IsFormula(s)
    THEN Raise("ParseError")
    ELSE IF reactants \cap products # {}
    THEN Raise("Substances on both sides")
    ELSE IF ElementsOf(reactants) # ElementsOf(products)
    THEN Raise("StructuralError")
    ELSE LET sols == PrimitiveSolutions(reactants, products) IN
         IF sols = {} THEN Raise("UnbalanceableError")
         ELSE IF Cardinality(sols) > 1 THEN Raise("AmbiguousBalanceError")
         ELSE LET c == CHOOSE c \in sols : TRUE IN
              [ok   |-> TRUE,
               reac |-> [i \in 1..Cardinality(reactants) |->
                            <<sorted(reactants)[i], c[sorted(reactants)[i]]>>],
               prod |-> [i \in 1..Cardinality(products) |->
                            <<sorted(products)[i], c[sorted(products)[i]]>>]]

\* dict(items)
dict(items) ==
    [k \in {items[i][1] : i \in 1..Len(items)} |->
        (CHOOSE v \in {items[i][2] : i \in 1..Len(items)} :
            \E i \in 1..Len(items) : items[i] = <<k, v>>)]

\* ' + '.join(f"{coef if coef > 1 else ''}{formula}" for formula, coef in items)
render_side(items) ==
    join([i \in 1..Len(items) |->
            (IF items[i][2] > 1 THEN <<ToString(items[i][2])>> ELSE <<>>)
              \o items[i][1]],
         <<" ", "+", " ">>)

\* reactants_str, products_str = parts
unpack_first_last(parts) ==
    [ok |-> TRUE, first |-> parts[1], second |-> parts[Len(parts)]]

unpack2(parts) ==
    IF Len(parts) < 2
    THEN Raise("not enough values to unpack (expected 2, got 1)")
    ELSE IF Len(parts) > 2
    THEN Raise("too many values to unpack (expected 2)")
    ELSE [ok |-> TRUE, first |-> parts[1], second |-> parts[2]]

\* [x.strip() for x in side.split('+')], as a set
species_set(side) ==
    {strip(split(side, "+")[i]) : i \in 1..Len(split(side, "+"))}

failure_stripped(equation, msg) ==
    [original |-> equation, balanced |-> strip(equation), error |-> msg,
     is_balanced |-> FALSE]

failure(equation, msg) ==
    [original |-> equation, balanced |-> equation, error |-> msg,
     is_balanced |-> FALSE]

\* the characters between the two sides in the f-string of the rendered
\* equation: U+00E2 U+2020 U+2019 (an arrow, U+2192, whose three UTF-8 bytes
\* were read as Windows-1252 characters)
separator == <<"U+00E2", "U+2020", "U+2019">>

success(equation, b) ==
    [original    |-> equation,
     balanced    |-> render_side(b.reac) \o <<" ">> \o separator \o <<" ">>
                        \o render_side(b.prod),
     reactants   |-> dict(b.reac),
     products    |-> dict(b.prod),
     is_balanced |-> TRUE]

balance_equation_swapped(equation) ==
    LET u == unpack2(split(equation, "=")) IN
    IF ~u.ok THEN failure(equation, u.error)
    ELSE LET b == balance_stoichiometry(species_set(u.second), species_set(u.first))
         IN  IF ~b.ok THEN failure(equation, b.error) ELSE success(equation, b)

balance_equation(equation) ==
    LET u == unpack2(split(equation, "=")) IN
    IF ~u.ok THEN failure(equation, u.error)
    ELSE LET b == balance_stoichiometry(species_set(u.first), species_set(u.second))
         IN  IF ~b.ok THEN failure(equation, b.error) ELSE success(equation, b)

\* merged == {**reactants, **products}
merge(reactants, products) ==
    [s \in DOMAIN reactants \cup DOMAIN products |->
        IF s \in DOMAIN products THEN products[s] ELSE reactants[s]]

\* given_substance not in all_substances or target_substance not in all_substances
substance_missing_both(all, given, target) ==
    given \notin DOMAIN all /\ target \notin DOMAIN all

substance_missing(all, given, target) ==
    given \notin DOMAIN all \/ target \notin DOMAIN all

\* molar_ratio = target_coef / given_coef, as the fraction <<numerator, denominator>>
molar_ratio_inverted(target_coef, given_coef) == <<given_coef, target_coef>>

molar_ratio(target_coef, given_coef) == <<target_coef, given_coef>>

\* the three unit branches compute the same product
target_amount(given_amount, ratio, unit) ==
    IF unit = "mol" THEN <<given_amount * ratio[1], ratio[2]>>
    ELSE IF unit = "g" THEN <<given_amount * ratio[1], ratio[2]>>
    ELSE <<given_amount * ratio[1], ratio[2]>>

calculate_stoichiometry(equation, given_substance, given_amount, target_substance, unit) ==
    LET balanced == balance_equation(equation) IN
    IF ~balanced.is_balanced THEN [error |-> "Could not balance equation"]
    ELSE LET all == merge(balanced.reactants, balanced.products) IN
         IF substance_missing(all, given_substance, target_substance)
         THEN [error |-> "Substance not found in equation"]
         ELSE IF given_substance \notin DOMAIN all \/ target_substance \notin DOMAIN all
         THEN [error |-> "KeyError"]
         ELSE LET given_coef  == all[given_substance]
                  target_coef == all[target_substance]
                  ratio       == molar_ratio(target_coef, given_coef)
                  amount      == target_amount(given_amount, ratio, unit)
              IN  [given_substance    |-> given_substance,
                   given_amount       |-> given_amount,
                   given_coefficient  |-> given_coef,
                   target_substance   |-> target_substance,
                   target_amount      |-> RoundDiv(amount[1], amount[2]),
                   target_coefficient |-> target_coef,
                   molar_ratio        |-> RoundDiv(ratio[1] * Scale, ratio[2]),
                   unit               |-> unit]

\* ---------------------------------------------------------------------- pH
\* math.log10 of a scaled number: None is ValueError("math domain error").
\* Defined on the powers of ten, where the logarithm is exact, and on 2
\* (0.30103, kept to four decimals).
log10(x) ==
    IF x <= 0 THEN None
    ELSE IF x = 2 * Scale THEN Some(3010)
    ELSE LET k == CHOOSE k \in 0..(2 * RoundDigits + 1) : Pow10(k) = x
         IN  Some((k - RoundDigits) * Scale)

\* the branch the if/elif chain takes
ph_branch_substring(substance_type, pka) ==
    IF substance_type \in {"strong_acid", "acid"} THEN "strong_acid"
    ELSE IF substance_type \in {"strong_base", "base"} THEN "strong_base"
    ELSE IF substance_type = "weak_acid" /\ pka # None THEN "weak_acid"
    ELSE IF substance_type = "weak_base" /\ pka # None THEN "weak_base"
    ELSE "neutral"

ph_branch(substance_type, pka) ==
    IF substance_type = "strong_acid" THEN "strong_acid"
    ELSE IF substance_type = "strong_base" THEN "strong_base"
    ELSE IF substance_type = "weak_acid" /\ pka # None THEN "weak_acid"
    ELSE IF substance_type = "weak_base" /\ pka # None THEN "weak_base"
    ELSE "neutral"

\* the unrounded ph, or None when the logarithm raises
ph_value(concentration, substance_type, pka) ==
    LET branch == ph_branch(substance_type, pka)
        log    == log10(concentration)
    IN  IF branch = "neutral" THEN Some(NeutralPh * Scale)
        ELSE IF log = None THEN None
        ELSE IF branch = "strong_acid" THEN Some(-log[1])
        ELSE IF branch = "strong_base"
        THEN LET poh == -log[1] IN Some(PhPlusPoh * Scale - poh)
        ELSE IF branch = "weak_acid" THEN Some(pka[1] - log[1])
        ELSE LET pkb == PhPlusPoh * Scale - pka[1]
                 poh == pkb - log[1]
             IN  Some(PhPlusPoh * Scale - poh)

ph_record(ph, concentration, substance_type) ==
    [ph             |-> Round(ph, PhDigits),
     poh            |-> Round(PhPlusPoh * Scale - ph, PhDigits),
     concentration  |-> concentration,
     substance_type |-> substance_type,
     is_acidic      |-> ph < NeutralPh * Scale,
     is_basic       |-> ph > NeutralPh * Scale,
     is_neutral     |-> 2 * ph > 13 * Scale /\ 2 * ph < 15 * Scale]

calculate_ph_swallow(concentration, substance_type, pka) ==
    LET ph == ph_value(concentration, substance_type, pka) IN
    IF ph = None THEN ph_record(NeutralPh * Scale, concentration, substance_type)
    ELSE ph_record(ph[1], concentration, substance_type)

calculate_ph(concentration, substance_type, pka) ==
    LET ph == ph_value(concentration, substance_type, pka) IN
    IF ph = None THEN [error |-> "math domain error"]
    ELSE ph_record(ph[1], concentration, substance_type)

\* ------------------------------------------------------ buffer and dilution
\* an exception leaving the try block, and the handler of the method:
\* except Exception as e: return {'error': str(e)}
raised(msg) == [raised |-> msg]

catch_none(outcome) == outcome

catch(outcome) ==
    IF "raised" \in DOMAIN outcome THEN [error |-> outcome.raised] ELSE outcome

\* The buffer concentrations count millionths, so that a total can lie between
\* two ten-thousandths.
Fine == Pow10(RoundDigits + 2)

\* round(n / d, 4) of a number in millionths, d > 0
round4(n, d) ==
    RoundDiv(n, d * (Fine \div Scale)) * (Fine \div Scale)

\* ratio = 10 ** (target_ph - pka), as the fraction <<numerator, denominator>>;
\* defined where the difference is a whole number
pow10_ratio_times(target_ph, pka) == <<10 * ((target_ph - pka) \div Scale), 1>>

pow10_ratio(target_ph, pka) ==
    LET e == (target_ph - pka) \div Scale IN
    IF e >= 0 THEN <<Pow10(e), 1>> ELSE <<1, Pow10(-e)>>

buffer_body(target_ph, pka, total_concentration) ==
    LET ratio == pow10_ratio(target_ph, pka)
        \* acid = total / (1 + ratio); base = total - acid
        acid  == <<total_concentration * ratio[2], ratio[2] + ratio[1]>>
        base  == <<total_concentration * ratio[1], ratio[2] + ratio[1]>>
    IN  [target_ph           |-> target_ph,
         pka                 |-> pka,
         acid_concentration  |-> round4(acid[1], acid[2]),
         base_concentration  |-> round4(base[1], base[2]),
         total_concentration |-> total_concentration,
         acid_base_ratio     |-> round4(ratio[1] * Fine, ratio[2]),
         buffer_capacity     |->
             IF 10 * ratio[1] > ratio[2] /\ ratio[1] < 10 * ratio[2]
             THEN "optimal" ELSE "suboptimal"]

buffer_calculator(target_ph, pka, total_concentration) ==
    catch(buffer_body(target_ph, pka, total_concentration))

\* the branch of dilution_calculator: which of the two is computed
dilution_branch_else(final_concentration, final_volume) ==
    IF final_concentration # None THEN "volume" ELSE "concentration"

dilution_branch(final_concentration, final_volume) ==
    IF final_concentration # None THEN "volume"
    ELSE IF final_volume # None THEN "concentration"
    ELSE "none"

\* (initial_concentration * initial_volume) / other, as a fraction with a
\* positive denominator; other # 0
derive_swapped(initial_concentration, initial_volume, other) ==
    IF other < 0 THEN <<-(initial_concentration * other), -initial_volume>>
    ELSE <<initial_concentration * other, initial_volume>>

derive(initial_concentration, initial_volume, other) ==
    IF other < 0 THEN <<-(initial_concentration * initial_volume), -other>>
    ELSE <<initial_concentration * initial_volume, other>>

dilution_body(initial_concentration, initial_volume, final_concentration, final_volume) ==
    LET branch == dilution_branch(final_concentration, final_volume) IN
    IF branch = "volume"
    THEN IF final_concentration[1] = 0 THEN raised("float division by zero")
         ELSE LET v == derive(initial_concentration, initial_volume,
                              final_concentration[1])
              IN  [initial_concentration |-> initial_concentration,
                   initial_volume        |-> initial_volume,
                   final_concentration   |-> final_concentration[1],
                   final_volume          |-> RoundDiv(v[1], v[2]),
                   solvent_to_add        |->
                       RoundDiv(v[1] - initial_volume * v[2], v[2])]
    ELSE IF branch = "concentration"
    THEN IF final_volume = None
         THEN raised("unsupported operand type(s) for /: 'float' and 'NoneType'")
         ELSE IF final_volume[1] = 0 THEN raised("float division by zero")
         ELSE LET c == derive(initial_concentration, initial_volume, final_volume[1])
              IN  [initial_concentration |-> initial_concentration,
                   initial_volume        |-> initial_volume,
                   final_concentration   |-> RoundDiv(c[1], c[2]),
                   final_volume          |-> final_volume[1],
                   solvent_to_add        |-> final_volume[1] - initial_volume]
    ELSE [error |-> "Must provide either final_concentration or final_volume"]

dilution_calculator(initial_concentration, initial_volume, final_concentration, final_volume) ==
    catch(dilution_body(initial_concentration, initial_volume,
                        final_concentration, final_volume))

\* ---------------------------------------------------------- periodic table
\* mendeleev.element(i) for the first twenty elements: symbol, group_id,
\* period, block and the class of the element
Row(symbol, group_id, period, block, class) ==
    [symbol |-> symbol, group_id |-> group_id, period |-> period,
     block |-> block, class |-> class]

PeriodicTable ==
    << Row("H", 1, 1, "s", "nonmetal"),   Row("He", 18, 1, "s", "nonmetal"),
       Row("Li", 1, 2, "s", "metal"),     Row("Be", 2, 2, "s", "metal"),
       Row("B", 13, 2, "p", "metalloid"), Row("C", 14, 2, "p", "nonmetal"),
       Row("N", 15, 2, "p", "nonmetal"),  Row("O", 16, 2, "p", "nonmetal"),
       Row("F", 17, 2, "p", "nonmetal"),  Row("Ne", 18, 2, "p", "nonmetal"),
       Row("Na", 1, 3, "s", "metal"),     Row("Mg", 2, 3, "s", "metal"),
       Row("Al", 13, 3, "p", "metal"),    Row("Si", 14, 3, "p", "metalloid"),
       Row("P", 15, 3, "p", "nonmetal"),  Row("S", 16, 3, "p", "nonmetal"),
       Row("Cl", 17, 3, "p", "nonmetal"), Row("Ar", 18, 3, "p", "nonmetal"),
       Row("K", 1, 4, "s", "metal"),      Row("Ca", 2, 4, "s", "metal") >>

\* what the installed library does when elem.is_metal is read: it has the
\* attribute (a boolean), or it has not and the read raises AttributeError
Libraries == {"is_metal", "no_is_metal"}

\* the body of the loop for element i: the element is kept, dropped, or the
\* bare except skips it
keeps(i, criteria, library) ==
    LET elem == PeriodicTable[i] IN
    /\ "group" \in DOMAIN criteria => elem.group_id = criteria.group
    /\ "period" \in DOMAIN criteria => elem.period = criteria.period
    /\ "block" \in DOMAIN criteria => elem.block = criteria.block
    /\ "is_metal" \in DOMAIN criteria =>
          /\ library = "is_metal"
          /\ (elem.class = "metal") = criteria.is_metal

\* results, in the order of the atomic numbers
RECURSIVE search_from(_, _, _)
search_from(i, criteria, library) ==
    IF i > MaxZ THEN <<>>
    ELSE (IF keeps(i, criteria, library)
          THEN <<[atomic_number |-> i, symbol |-> PeriodicTable[i].symbol]>>
          ELSE <<>>) \o search_from(i + 1, criteria, library)

search_elements(criteria, library) == search_from(1, criteria, library)

\* --------------------------------------------------------- inventory search
\* db.query(Material).limit(50)
SearchLimit == 50

\* lower case of a character
Lower(c) == IF c = "A" THEN "a" ELSE IF c = "B" THEN "b" ELSE c

\* name ILIKE pattern: "%" stands for any run of characters, "_" for any one
\* character, every other character for itself in either case
RECURSIVE ilike(_, _)
ilike(name, pattern) ==
    IF pattern = <<>> THEN name = <<>>
    ELSE IF Head(pattern) = "%"
    THEN ilike(name, Tail(pattern)) \/ (name # <<>> /\ ilike(Tail(name), pattern))
    ELSE /\ name # <<>>
         /\ Head(pattern) = "_" \/ Lower(Head(pattern)) = Lower(Head(name))
         /\ ilike(Tail(name), Tail(pattern))

\* the names of the rows of the materials table, by id
MaterialNames ==
    << <<"a", "b", "c">>, <<"A", "_", "c">>, <<"b">>, <<"B", "a", "%">> >>

NameOf(id) == MaterialNames[((id - 1) % Len(MaterialNames)) + 1]

\* search_inventory(q, db) on a table with the rows 1..rows: the ids of the
\* materials returned; limit(50) keeps the first fifty rows
search_inventory(q, rows) ==
    IF q = <<>>
    THEN {id \in 1..rows : id <= SearchLimit}
    ELSE {id \in 1..rows : ilike(NameOf(id), <<"%">> \o q \o <<"%">>)}

\* ------------------------------------------------------------ AI analysis
\* The values passed as properties: a dictionary (what the endpoint passes,
\* Dict[str, Any] = {}) or None.
PropertyKinds == {"dict", "none"}

AnalysisTypes == {"general", "safety", "applications", "synthesis"}

\* what the model does with the prompt: answers JSON, answers text that is not
\* JSON, or fails
ModelAnswers == {"json", "text", "failure"}

\* hash(value), which functools.lru_cache takes of every argument: a
\* dictionary has none
Hashable(properties) == properties # "dict"

\* the body of analyze_compound: the try block and its handler, which returns
\* a dictionary with an 'error' entry
analyze_compound_body(properties, analysis_type, model) ==
    catch(IF properties = "none"
          THEN raised("'NoneType' object has no attribute 'get'")
          ELSE IF analysis_type \notin AnalysisTypes
          THEN raised("Unknown analysis type")
          ELSE IF model = "failure" THEN raised("model failure")
          ELSE IF model = "text" THEN raised("Expecting value")
          ELSE [analysis |-> "json", analysis_type |-> analysis_type])

\* @lru_cache(maxsize=100) around the method: the wrapper builds the key of
\* the call from the arguments before the body runs
analyze_compound(properties, analysis_type, model) ==
    IF ~Hashable(properties) THEN raised("unhashable type: 'dict'")
    ELSE analyze_compound_body(properties, analysis_type, model)

\* POST /analyze-compound: the request's properties are a dictionary
analyze_compound_endpoint(analysis_type, model) ==
    LET outcome == analyze_compound("dict", analysis_type, model)
    IN  IF "raised" \in DOMAIN outcome
        THEN [status_code |-> 500, detail |-> outcome.raised]
        ELSE IF "error" \in DOMAIN outcome
        THEN [status_code |-> 500, detail |-> outcome.error]
        ELSE [status_code |-> 200, body |-> outcome]

\* ------------------------------------------------------- structure analysis
\* Loading structure_analysis.py: the names bound when the module body has
\* run, and the exception that ended it, if any. The handler of the failed
\* import (lines 9-11) runs before line 13 binds logger.
load_structure_analysis(rdkit_installed) ==
    LET imported == IF rdkit_installed
                    THEN {"Chem", "AllChem", "Descriptors", "Draw",
                          "rdMolDescriptors", "RDKIT_AVAILABLE"}
                    ELSE {"RDKIT_AVAILABLE"}
        warned == rdkit_installed \/ "logger" \in imported
    IN  IF ~warned
        THEN [names |-> imported, RDKIT_AVAILABLE |-> rdkit_installed,
              raised |-> Some("name 'logger' is not defined")]
        ELSE [names |-> imported \cup {"logger", "StructureAnalysisService",
                                       "structure_analysis_service"},
              RDKIT_AVAILABLE |-> rdkit_installed,
              raised |-> None]

StructureOps ==
    {"get_molecule_data", "get_3d_structure", "calculate_descriptors",
     "generate_image"}

get_molecule_data(available, smiles_valid) ==
    IF ~available THEN raised("RDKit is not installed.")
    ELSE IF ~smiles_valid THEN raised("Invalid SMILES string")
    ELSE [data |-> "2d"]

\* embedded: AllChem.EmbedMolecule did not return -1
get_3d_structure(available, smiles_valid, embedded) ==
    IF ~available THEN raised("RDKit is not installed.")
    ELSE IF ~smiles_valid \/ ~embedded
    THEN get_molecule_data(available, smiles_valid)
    ELSE [data |-> "3d"]

calculate_descriptors(available, smiles_valid) ==
    IF ~available THEN raised("RDKit is not installed.")
    ELSE IF ~smiles_valid THEN raised("Invalid SMILES")
    ELSE [data |-> "descriptors"]

generate_image(available, smiles_valid) ==
    IF ~available THEN raised("RDKit is not installed.")
    ELSE IF ~smiles_valid THEN raised("Invalid SMILES")
    ELSE [data |-> "png"]

\* a caller imports the module and calls one operation of its singleton
structure_operation(rdkit_installed, op, smiles_valid, embedded) ==
    LET module == load_structure_analysis(rdkit_installed)
        available == module.RDKIT_AVAILABLE
    IN  [module |-> module,
         outcome |->
            IF module.raised # None THEN raised(module.raised[1])
            ELSE CASE op = "get_molecule_data" ->
                        get_molecule_data(available, smiles_valid)
                   [] op = "get_3d_structure" ->
                        get_3d_structure(available, smiles_valid, embedded)
                   [] op = "calculate_descriptors" ->
                        calculate_descriptors(available, smiles_valid)
                   [] op = "generate_image" ->
                        generate_image(available, smiles_valid)]

\* --------------------------------------------------------- formula analysis
\* item.percentage / 100.0
Percent == 100

\* The rows of the materials table, by id: price_per_kg in currency units per
\* kg, inventory_level in kg or NULL (the column is nullable), ghs_tags.
MaterialRows ==
    << [name |-> "a", price_per_kg |-> 2, inventory_level |-> Some(1),
        ghs_tags |-> <<"H314", "H225">>],
       [name |-> "b", price_per_kg |-> 1, inventory_level |-> Some(4),
        ghs_tags |-> <<>>],
       [name |-> "c", price_per_kg |-> 3, inventory_level |-> None,
        ghs_tags |-> <<"H302">>] >>

\* db.query(Material).filter(Material.id == material_id).first()
first_material(material_id) ==
    IF material_id \in DOMAIN MaterialRows THEN Some(MaterialRows[material_id])
    ELSE None

ghs_icons_of(tags) ==
    {"Corrosive" : k \in {j \in 1..Len(tags) : tags[j] \in {"H314", "H318"}}}
      \cup {"Flammable" :
              k \in {j \in 1..Len(tags) : tags[j] \in {"H224", "H225", "H226"}}}
      \cup {"Toxic" :
              k \in {j \in 1..Len(tags) : tags[j] \in {"H300", "H301", "H302"}}}

\* The loop over formula.items. Weights and costs count hundredths: an item
\* needs percentage * total hundredths of a kg. The percentages drawn have a
\* hundredth that binary floating point holds exactly, so the products and
\* the sums of the code are these numbers.
RECURSIVE analyze_items(_, _, _)
analyze_items(items, total, acc) ==
    IF items = <<>> THEN acc
    ELSE LET item == Head(items)
             found == first_material(item.material_id)
         IN  IF found = None
             THEN [raised |-> "HTTPException", status_code |-> 404,
                   material_id |-> item.material_id]
             ELSE LET material == found[1]
                      weight_needed == item.percentage * total
                  IN  IF material.inventory_level = None
                      THEN raised("'<' not supported between instances of 'NoneType' and 'float'")
                      ELSE LET short == material.inventory_level[1] * Percent
                                          < weight_needed
                           IN  analyze_items(Tail(items), total,
                                 [total_cost |-> acc.total_cost
                                     + weight_needed * material.price_per_kg,
                                  inventory_ok |-> acc.inventory_ok /\ ~short,
                                  missing_materials |->
                                     IF short
                                     THEN Append(acc.missing_materials,
                                            [name |-> material.name,
                                             need |-> weight_needed,
                                             have |-> material.inventory_level[1]])
                                     ELSE acc.missing_materials,
                                  safety_hazards |-> acc.safety_hazards \cup
                                     {material.ghs_tags[k] :
                                         k \in 1..Len(material.ghs_tags)},
                                  ghs_icons |-> acc.ghs_icons \cup
                                     ghs_icons_of(material.ghs_tags)])

\* analyze_formula_with_cost_and_safety(formula, db): total_cost and
\* cost_per_kg in hundredths
analyze_formula(items, total) ==
    LET acc == analyze_items(items, total,
                   [total_cost |-> 0, inventory_ok |-> TRUE,
                    missing_materials |-> <<>>, safety_hazards |-> {},
                    ghs_icons |-> {}])
    IN  IF "raised" \in DOMAIN acc THEN acc
        ELSE IF total = 0 THEN raised("float division by zero")
        ELSE [total_cost |-> acc.total_cost,
              cost_per_kg |-> acc.total_cost \div total,
              inventory_status |->
                 IF acc.inventory_ok THEN "OK" ELSE "Insufficient Stock",
              missing_materials |-> acc.missing_materials,
              safety_hazards |-> acc.safety_hazards,
              ghs_icons |-> acc.ghs_icons]

\* ------------------------------------------------------------------ inputs
TextFormulas == {"H2", "O2", "O3", "H2O"}

Alphabet == TextFormulas \cup {"+", "=", " "}

BoundedTexts == UNION {[1..n -> Alphabet] : n \in 0..MaxLen}

ExWater == <<"H2", " ", "+", " ", "O2", " ", "=", " ", "H2O">>
ExMethane ==
    <<"CH4", " ", "+", " ", "O2", " ", "=", " ", "CO2", " ", "+", " ", "H2O">>
ExPeroxide == <<"H2O2", " ", "=", " ", "H2O", " ", "+", " ", "O2">>
ExOzone == <<"O2", " ", "=", " ", "O3">>
ExNoEquals == <<"H2", " ", "+", " ", "O2">>
ExTwoEquals == <<"H2", " ", "=", " ", "O2", " ", "=", " ", "H2O">>
ExUnbalanceable == <<"H2O", " ", "=", " ", "H2O2">>
ExAmbiguous ==
    <<"H2", " ", "+", " ", "O2", " ", "=", " ", "H2O", " ", "+", " ", "H2O2">>

ExampleTexts ==
    {ExWater, ExMethane, ExPeroxide, ExOzone, ExNoEquals, ExTwoEquals, ExUnbalanceable,
     ExAmbiguous}

Texts == BoundedTexts \cup ExampleTexts

SubstanceNames ==
    {<<"H2">>, <<"O2">>, <<"O3">>, <<"H2O">>, <<"CO2">>, <<"N2">>, <<" ", "H2">>}

\* given amounts, in ten-thousandths: -1.5, 0, 1, 2.5, 3
Amounts == {-15000, 0, 10000, 25000, 30000}

Units == {"mol", "g", "L"}

BalanceCalls == {[op |-> "balance_equation", equation |-> t] : t \in Texts}

StoichCalls ==
    {[op |-> "calculate_stoichiometry", equation |-> t, given_substance |-> g,
      given_amount |-> a, target_substance |-> s, unit |-> u] :
        t \in ExampleTexts, g \in SubstanceNames, a \in Amounts,
        s \in SubstanceNames, u \in Units}

\* concentrations, in ten-thousandths: -1, 0, 0.001, 0.01, 0.1, 1, 2, 10
Concentrations == {-10000, 0, 10, 100, 1000, 10000, 20000, 100000}

SubstanceTypes ==
    {"strong_acid", "strong_base", "weak_acid", "weak_base", "acid", "base",
     "buffer"}

\* pKa: absent, 4.76, 9.25
PkaValues == {None, Some(47600), Some(92500)}

\* calculate_ph(1.0, "weak_acid", 0.015): ph and 14 - ph both end in 5
ExPhTie ==
    [op |-> "calculate_ph", concentration |-> Scale, substance_type |-> "weak_acid",
     pka |-> Some(150)]

PhCalls ==
    {[op |-> "calculate_ph", concentration |-> c, substance_type |-> t, pka |-> p] :
        c \in Concentrations, t \in SubstanceTypes, p \in PkaValues}
      \cup {ExPhTie}

\* pKa 4.76, 7.0; target_ph - pka from -2 to 2; totals, in millionths:
\* -0.1, 0, 0.00015, 0.1, 1
BufferCalls ==
    {[op |-> "buffer_calculator", target_ph |-> k + e * Scale, pka |-> k,
      total_concentration |-> t] :
        k \in {47600, 70000}, e \in -2..2,
        t \in {-100000, 0, 150, 100000, 1000000}}

\* c1: 1, 10; v1: 1, 2; c2 and v2: absent, 0, and 1, 3 or 3, 5
DilutionCalls ==
    {[op |-> "dilution_calculator", initial_concentration |-> c1,
      initial_volume |-> v1, final_concentration |-> c2, final_volume |-> v2] :
        c1 \in {10000, 100000}, v1 \in {10000, 20000},
        c2 \in {None, Some(0), Some(10000), Some(30000)},
        v2 \in {None, Some(0), Some(30000), Some(50000)}}

\* a criteria dictionary with the keys that are given
Criteria(group, period, block, is_metal) ==
    [k \in {"group" : x \in 1..Len(group)}
         \cup {"period" : x \in 1..Len(period)}
         \cup {"block" : x \in 1..Len(block)}
         \cup {"is_metal" : x \in 1..Len(is_metal)} |->
        CASE k = "group" -> group[1]
          [] k = "period" -> period[1]
          [] k = "block" -> block[1]
          [] k = "is_metal" -> is_metal[1]]

SearchCalls ==
    {[op |-> "search_elements", criteria |-> Criteria(g, p, b, m),
      library |-> l] :
        g \in {None, Some(1), Some(17), Some(3)},
        p \in {None, Some(2), Some(3)},
        b \in {None, Some("s"), Some("p")},
        m \in {None, Some(TRUE), Some(FALSE)},
        l \in Libraries}

\* queries, and tables of no, a few and more than fifty rows
InventoryCalls ==
    {[op |-> "search_inventory", q |-> q, rows |-> n] :
        q \in {<<>>, <<"a">>, <<"B">>, <<"c", "a">>, <<"b", "C">>, <<"_">>,
               <<"%">>, <<"a", "_", "c">>},
        n \in {0, 4, SearchLimit + 2}}

\* direct calls of the method, and requests to the endpoint, whose properties
\* are a dictionary
AnalyzeCalls ==
    {[op |-> "analyze_compound", via |-> "direct", properties |-> p,
      analysis_type |-> t, model |-> m] :
        p \in PropertyKinds, t \in AnalysisTypes \cup {"other"},
        m \in ModelAnswers}
      \cup
    {[op |-> "analyze_compound", via |-> "endpoint", properties |-> "dict",
      analysis_type |-> t, model |-> m] :
        t \in AnalysisTypes \cup {"other"}, m \in ModelAnswers}

StructureCalls ==
    {[op |-> "structure_operation", rdkit_installed |-> r, method |-> o,
      smiles_valid |-> v, embedded |-> e] :
        r \in BOOLEAN, o \in StructureOps, v \in BOOLEAN, e \in BOOLEAN}

\* percentages whose hundredth binary floating point holds exactly
Percentages == {0, 25, 50, 100}

RECURSIVE ItemLists(_)
ItemLists(n) ==
    IF n = 0 THEN {<<>>}
    ELSE ItemLists(n - 1) \cup
         {Append(l, [material_id |-> i, percentage |-> p]) :
             l \in ItemLists(n - 1), i \in 1..(Len(MaterialRows) + 1),
             p \in Percentages}

\* formulas of up to MaxItems items and a batch of 0, 2 or 4 kg
FormulaCalls ==
    {[op |-> "analyze_formula", items |-> l, total_batch_weight_kg |-> w] :
        l \in ItemLists(MaxItems), w \in {0, 2, 4}}

Calls ==
    BalanceCalls \cup StoichCalls \cup PhCalls \cup BufferCalls
      \cup DilutionCalls \cup SearchCalls \cup InventoryCalls
      \cup AnalyzeCalls \cup StructureCalls \cup FormulaCalls

\* ---------------------------------------------------------- shared instance
Callers == 1..NumCallers

\* no invocation in progress
NoCall == [idle |-> TRUE]

\* no call has returned yet
NoReturn == [none |-> TRUE]

\* reaction_engine_service.<op>(...): the method a call names, applied to the
\* arguments of the call
Apply(args) ==
    CASE args.op = "balance_equation" -> balance_equation(args.equation)
      [] args.op = "calculate_stoichiometry" ->
            calculate_stoichiometry(args.equation, args.given_substance,
                args.given_amount, args.target_substance, args.unit)
      [] args.op = "calculate_ph" ->
            calculate_ph(args.concentration, args.substance_type, args.pka)
      [] args.op = "buffer_calculator" ->
            buffer_calculator(args.target_ph, args.pka, args.total_concentration)
      [] args.op = "dilution_calculator" ->
            dilution_calculator(args.initial_concentration, args.initial_volume,
                args.final_concentration, args.final_volume)

\* The arguments a method body reads: parameters and locals belong to the
\* invocation; no method reads or assigns an attribute of self.
frame_first(c, fs) == fs[CHOOSE d \in Callers : fs[d] # NoCall]

frame(c, fs) == fs[c]

\* the value a call returned reports a failure
IsFailure(r) == "error" \in DOMAIN r \/ "raised" \in DOMAIN r

\* calls of the concurrent callers: each method, three that fail (a malformed
\* equation, a zero concentration, a zero final concentration) and three
\* that succeed
ConcCalls ==
    { [op |-> "balance_equation", equation |-> ExWater],
      [op |-> "balance_equation", equation |-> ExNoEquals],
      [op |-> "calculate_stoichiometry", equation |-> ExWater,
       given_substance |-> <<"H2">>, given_amount |-> 10000,
       target_substance |-> <<"H2O">>, unit |-> "mol"],
      [op |-> "calculate_ph", concentration |-> 0,
       substance_type |-> "strong_acid", pka |-> None],
      [op |-> "buffer_calculator", target_ph |-> 47600, pka |-> 47600,
       total_concentration |-> 100000],
      [op |-> "dilution_calculator", initial_concentration |-> 100000,
       initial_volume |-> 10000, final_concentration |-> Some(0),
       final_volume |-> None] }

\* what each of these calls returns, computed once
ConcResults == [args \in ConcCalls |-> Apply(args)]

\* ----------------------------------------------------------- compound lookup
Cids == 1..MaxCid

\* what PubChem answers to a fetch: an error, or the compound's data as it
\* stands at that time
PubChemAnswers == {"error", "data-1", "data-2"}

\* self.cache[cid] = info
put(c, cid, info) ==
    [k \in DOMAIN c \cup {cid} |-> IF k = cid THEN info ELSE c[k]]

\* get_compound_info on the cache c when PubChem would answer pubchem: the
\* cache afterwards, the value returned, whether PubChem was contacted
get_compound_info_negative(c, cid, pubchem) ==
    IF cid \in DOMAIN c
    THEN [cache |-> c, returned |-> Some(c[cid]), contacted |-> FALSE]
    ELSE IF pubchem = "error"
    THEN [cache |-> put(c, cid, "error"), returned |-> None, contacted |-> TRUE]
    ELSE [cache |-> put(c, cid, pubchem), returned |-> Some(pubchem),
          contacted |-> TRUE]

get_compound_info(c, cid, pubchem) ==
    IF cid \in DOMAIN c
    THEN [cache |-> c, returned |-> Some(c[cid]), contacted |-> FALSE]
    ELSE IF pubchem = "error"
    THEN [cache |-> c, returned |-> None, contacted |-> TRUE]
    ELSE [cache |-> put(c, cid, pubchem), returned |-> Some(pubchem),
          contacted |-> TRUE]

\* no get_compound_info call yet
NoLookup == [none |-> TRUE]

\* ------------------------------------------------------- AI service singleton
\* api_key: absent, empty, or one of two keys
ApiKeys == {None, Some(""), Some("key-a"), Some("key-b")}

\* AIChemistryService(api_key); serial tells the objects apart
AIChemistryService(api_key, serial) ==
    IF api_key = None \/ api_key = Some("")
    THEN raised("Gemini API key is required")
    ELSE [model |-> "gemini-1.5-flash", serial |-> serial]

\* get_ai_chemistry_service on the global service: the global afterwards and
\* what the caller gets
get_ai_chemistry_service_fresh(service, api_key, serial) ==
    LET made == AIChemistryService(api_key, serial) IN
    IF "raised" \in DOMAIN made THEN [service |-> service, outcome |-> made]
    ELSE [service |-> Some(made), outcome |-> [returned |-> made]]

get_ai_chemistry_service(service, api_key, serial) ==
    IF service = None
    THEN LET made == AIChemistryService(api_key, serial) IN
         IF "raised" \in DOMAIN made THEN [service |-> service, outcome |-> made]
         ELSE [service |-> Some(made), outcome |-> [returned |-> made]]
    ELSE [service |-> service, outcome |-> [returned |-> service[1]]]

\* no get_ai_chemistry_service call yet
NoGot == [none |-> TRUE]

\* compound_lookup_service = CompoundLookupService(); _ai_service = None
InitServices ==
    /\ cache = <<>>
    /\ succeeded = {}
    /\ lookup = NoLookup
    /\ ai_service = None
    /\ constructions = <<>>
    /\ got = NoGot

\* ------------------------------------------------------------ state machine
Init ==
    /\ pc = "called"
    /\ call \in Calls
    /\ result = NoResult
    /\ prev = NoResult
    /\ frames = [c \in Callers |-> NoCall]
    /\ returned = {}
    /\ last = NoReturn
    /\ InitServices

BalanceEquation ==
    /\ pc = "called"
    /\ call.op = "balance_equation"
    /\ result' = balance_equation(call.equation)
    /\ pc' = "done"
    /\ UNCHANGED <<call, prev, frames, returned, last, servicevars>>

\* the caller balances the rendered string of a successful result again
Rebalance ==
    /\ pc = "done"
    /\ call.op = "balance_equation"
    /\ prev = NoResult
    /\ result.is_balanced
    /\ call' = [op |-> "balance_equation", equation |-> result.balanced]
    /\ prev' = result
    /\ result' = NoResult
    /\ pc' = "called"
    /\ UNCHANGED <<frames, returned, last, servicevars>>

CalculateStoichiometry ==
    /\ pc = "called"
    /\ call.op = "calculate_stoichiometry"
    /\ result' = calculate_stoichiometry(call.equation, call.given_substance,
                     call.given_amount, call.target_substance, call.unit)
    /\ pc' = "done"
    /\ UNCHANGED <<call, prev, frames, returned, last, servicevars>>

CalculatePh ==
    /\ pc = "called"
    /\ call.op = "calculate_ph"
    /\ result' = calculate_ph(call.concentration, call.substance_type, call.pka)
    /\ pc' = "done"
    /\ UNCHANGED <<call, prev, frames, returned, last, servicevars>>

BufferCalculator ==
    /\ pc = "called"
    /\ call.op = "buffer_calculator"
    /\ result' = buffer_calculator(call.target_ph, call.pka, call.total_concentration)
    /\ pc' = "done"
    /\ UNCHANGED <<call, prev, frames, returned, last, servicevars>>

DilutionCalculator ==
    /\ pc = "called"
    /\ call.op = "dilution_calculator"
    /\ result' = dilution_calculator(call.initial_concentration, call.initial_volume,
                     call.final_concentration, call.final_volume)
    /\ pc' = "done"
    /\ UNCHANGED <<call, prev, frames, returned, last, servicevars>>

SearchElements ==
    /\ pc = "called"
    /\ call.op = "search_elements"
    /\ result' = [elements |-> search_elements(call.criteria, call.library)]
    /\ pc' = "done"
    /\ UNCHANGED <<call, prev, frames, returned, last, servicevars>>

SearchInventory ==
    /\ pc = "called"
    /\ call.op = "search_inventory"
    /\ result' = [materials |-> search_inventory(call.q, call.rows)]
    /\ pc' = "done"
    /\ UNCHANGED <<call, prev, frames, returned, last, servicevars>>

AnalyzeCompound ==
    /\ pc = "called"
    /\ call.op = "analyze_compound"
    /\ result' =
         IF call.via = "endpoint"
         THEN [response |-> analyze_compound_endpoint(call.analysis_type,
                                                      call.model)]
         ELSE [outcome |-> analyze_compound(call.properties,
                               call.analysis_type, call.model)]
    /\ pc' = "done"
    /\ UNCHANGED <<call, prev, frames, returned, last, servicevars>>

StructureOperation ==
    /\ pc = "called"
    /\ call.op = "structure_operation"
    /\ result' = structure_operation(call.rdkit_installed, call.method,
                                     call.smiles_valid, call.embedded)
    /\ pc' = "done"
    /\ UNCHANGED <<call, prev, frames, returned, last, servicevars>>

AnalyzeFormula ==
    /\ pc = "called"
    /\ call.op = "analyze_formula"
    /\ result' = analyze_formula(call.items, call.total_batch_weight_kg)
    /\ pc' = "done"
    /\ UNCHANGED <<call, prev, frames, returned, last, servicevars>>

Next ==
    \/ BalanceEquation
    \/ Rebalance
    \/ CalculateStoichiometry
    \/ CalculatePh
    \/ BufferCalculator
    \/ DilutionCalculator
    \/ SearchElements
    \/ SearchInventory
    \/ AnalyzeCompound
    \/ StructureOperation
    \/ AnalyzeFormula

Spec == Init /\ [][Next]_vars

\* ---------------------------------------- callers of the shared instance
InitConc ==
    /\ pc = "shared"
    /\ call = NoCall
    /\ result = NoResult
    /\ prev = NoResult
    /\ frames = [c \in Callers |-> NoCall]
    /\ returned = {}
    /\ last = NoReturn
    /\ InitServices

\* a caller enters a method of reaction_engine_service with its arguments
Invoke(c) ==
    /\ frames[c] = NoCall
    /\ \E args \in ConcCalls : frames' = [frames EXCEPT ![c] = args]
    /\ UNCHANGED <<pc, call, result, prev, returned, last, servicevars>>

\* how a returning call stands to the calls before and beside it
Context(c) ==
    IF \E d \in Callers \ {c} : frames[d] # NoCall THEN "concurrent"
    ELSE IF \E e \in returned : IsFailure(e.result) THEN "after_failure"
    ELSE "fresh"

\* the method body runs on the arguments of the invocation and returns
Return(c) ==
    /\ frames[c] # NoCall
    /\ LET r == ConcResults[frame(c, frames)] IN
         /\ returned' = returned \cup {[call |-> frames[c], result |-> r]}
         /\ last' = [call |-> frames[c], result |-> r, context |-> Context(c)]
    /\ frames' = [frames EXCEPT ![c] = NoCall]
    /\ UNCHANGED <<pc, call, result, prev, servicevars>>

NextConc ==
    \/ \E c \in Callers : Invoke(c)
    \/ \E c \in Callers : Return(c)

SpecConc == InitConc /\ [][NextConc]_vars

\* -------------------------------------------- services that keep state
InitServicesOnly ==
    /\ pc = "services"
    /\ call = NoCall
    /\ result = NoResult
    /\ prev = NoResult
    /\ frames = [c \in Callers |-> NoCall]
    /\ returned = {}
    /\ last = NoReturn
    /\ InitServices

GetCompoundInfo ==
    \E cid \in Cids, pubchem \in PubChemAnswers :
        LET r == get_compound_info(cache, cid, pubchem) IN
        /\ cache' = r.cache
        /\ succeeded' = IF r.contacted /\ pubchem # "error"
                        THEN succeeded \cup {cid} ELSE succeeded
        /\ lookup' = [cid |-> cid, returned |-> r.returned,
                      contacted |-> r.contacted, before |-> cache]
        /\ UNCHANGED <<pc, call, result, prev, frames, returned, last,
                       ai_service, constructions, got>>

GetAiChemistryService ==
    \E api_key \in ApiKeys :
        LET r == get_ai_chemistry_service(ai_service, api_key,
                                          Len(constructions) + 1) IN
        /\ ai_service' = r.service
        /\ constructions' = IF r.service # ai_service
                            THEN Append(constructions, api_key)
                            ELSE constructions
        /\ got' = [api_key |-> api_key, outcome |-> r.outcome,
                   before |-> ai_service]
        /\ UNCHANGED <<pc, call, result, prev, frames, returned, last,
                       cache, succeeded, lookup>>

NextServices ==
    \/ GetCompoundInfo
    \/ GetAiChemistryService

SpecServices == InitServicesOnly /\ [][NextServices]_vars

\* ------------------------------------------------------------- properties
Done(op) == pc = "done" /\ call.op = op

CountOf(text, tok) == Cardinality({i \in 1..Len(text) : text[i] = tok})

\* the species of the balanced form of the equation of the current call
SpeciesOf(equation) ==
    DOMAIN balance_equation(equation).reactants
      \cup DOMAIN balance_equation(equation).products

CoefOf(equation, species) ==
    merge(balance_equation(equation).reactants,
          balance_equation(equation).products)[species]

\* q is n / d rounded to the nearest integer
Nearest(q, n, d) == 2 * Abs(q * d - n) <= d

C2_WaterExample ==
    (Done("balance_equation") /\ call.equation = ExWater) =>
        /\ result.is_balanced
        /\ result.reactants = (<<"H2">> :> 2 @@ <<"O2">> :> 1)
        /\ result.products = (<<"H2O">> :> 2)

C2_Witness ==
    /\ Done("balance_equation")
    /\ call.equation = ExWater
    /\ result.is_balanced

\* C3: balancing the rendered string of a successful result succeeds again
\* with the same reactant and product coefficients.
C3_RebalanceIdempotent ==
    (Done("balance_equation") /\ prev # NoResult) =>
        /\ result.is_balanced
        /\ result.reactants = prev.reactants
        /\ result.products = prev.products

\* C4: an equation text without exactly one "=" fails with the unpacking
\* error and returns no coefficients.
C4_NotOneEqualsFails ==
    (Done("balance_equation") /\ CountOf(call.equation, "=") # 1) =>
        /\ ~result.is_balanced
        /\ "reactants" \notin DOMAIN result
        /\ "products" \notin DOMAIN result
        /\ result.error \in
             {"not enough values to unpack (expected 2, got 1)",
              "too many values to unpack (expected 2)"}

C4_Witness ==
    /\ Done("balance_equation")
    /\ call.equation = ExNoEquals
    /\ result.error = "not enough values to unpack (expected 2, got 1)"

\* C5: on an equation that balances, a given or target species that is not a
\* species of the balanced equation gives the not-found error and no amount.
C5_MissingSpeciesNotFound ==
    ( /\ Done("calculate_stoichiometry")
      /\ balance_equation(call.equation).is_balanced
      /\ \/ call.given_substance \notin SpeciesOf(call.equation)
         \/ call.target_substance \notin SpeciesOf(call.equation) ) =>
        result = [error |-> "Substance not found in equation"]

C5_Witness ==
    /\ Done("calculate_stoichiometry")
    /\ call.equation = ExWater
    /\ call.given_substance = <<"H2">>
    /\ call.target_substance = <<"CO2">>
    /\ result = [error |-> "Substance not found in equation"]

\* C6: for unit "mol" with both species present, molar_ratio is
\* target coefficient / given coefficient and target_amount is
\* given_amount times that ratio, each rounded to four decimals.
C6_MolRatioAndAmount ==
    ( /\ Done("calculate_stoichiometry")
      /\ call.unit = "mol"
      /\ balance_equation(call.equation).is_balanced
      /\ call.given_substance \in SpeciesOf(call.equation)
      /\ call.target_substance \in SpeciesOf(call.equation) ) =>
        LET gc == CoefOf(call.equation, call.given_substance)
            tc == CoefOf(call.equation, call.target_substance)
        IN  /\ "error" \notin DOMAIN result
            /\ result.given_coefficient = gc
            /\ result.target_coefficient = tc
            /\ Nearest(result.molar_ratio, tc * Scale, gc)
            /\ Nearest(result.target_amount, call.given_amount * tc, gc)

C6_Witness ==
    /\ Done("calculate_stoichiometry")
    /\ call.unit = "mol"
    /\ call.equation = ExOzone
    /\ call.given_substance = <<"O2">>
    /\ call.target_substance = <<"O3">>
    /\ call.given_amount = 25000
    /\ result.molar_ratio = 6667
    /\ result.target_amount = 16667

\* C7: for unit "g" the call returns the mol-based amount and the result is
\* distinguishable from the exact (mol) result beyond the echoed unit.
C7_GramsFlaggedApproximate ==
    ( /\ Done("calculate_stoichiometry")
      /\ call.unit = "g"
      /\ balance_equation(call.equation).is_balanced
      /\ call.given_substance \in SpeciesOf(call.equation)
      /\ call.target_substance \in SpeciesOf(call.equation) ) =>
        /\ "error" \notin DOMAIN result
        /\ result # [calculate_stoichiometry(call.equation, call.given_substance,
                        call.given_amount, call.target_substance, "mol")
                     EXCEPT !.unit = "g"]

\* C8: a concentration <= 0 on a branch that takes a logarithm gives the
\* domain error and no ph.
C8_NonPositiveConcentrationFails ==
    ( /\ Done("calculate_ph")
      /\ call.concentration <= 0
      /\ \/ call.substance_type \in {"strong_acid", "strong_base"}
         \/ /\ call.substance_type \in {"weak_acid", "weak_base"}
            /\ call.pka # None ) =>
        /\ "ph" \notin DOMAIN result
        /\ "error" \in DOMAIN result
        /\ result.error = "math domain error"

C8_Witness ==
    /\ Done("calculate_ph")
    /\ call.concentration = -10000
    /\ call.substance_type = "strong_acid"
    /\ result = [error |-> "math domain error"]

\* C9: weak_acid or weak_base without a pKa fails instead of returning a ph.
C9_WeakWithoutPkaFails ==
    ( /\ Done("calculate_ph")
      /\ call.substance_type \in {"weak_acid", "weak_base"}
      /\ call.pka = None ) =>
        /\ "error" \in DOMAIN result
        /\ "ph" \notin DOMAIN result

\* C10: a kind that is none of the four recognised ones returns ph 7.0
\* without error, whatever the concentration.
C10_UnknownKindNeutral ==
    ( /\ Done("calculate_ph")
      /\ call.substance_type \notin
           {"strong_acid", "strong_base", "weak_acid", "weak_base"} ) =>
        /\ "error" \notin DOMAIN result
        /\ result.ph = NeutralPh * Scale

C10_Witness ==
    /\ Done("calculate_ph")
    /\ call.substance_type = "acid"
    /\ call.concentration = -10000
    /\ result.ph = NeutralPh * Scale

\* C11 as stated: for strong_acid and concentration > 0 the returned ph is
\* -log10(concentration).
C11_StrongAcidExactLog ==
    ( /\ Done("calculate_ph")
      /\ call.substance_type = "strong_acid"
      /\ call.concentration > 0 ) =>
        /\ "error" \notin DOMAIN result
        /\ result.ph = -log10(call.concentration)[1]

\* C11 amended: for strong_acid and concentration > 0 the returned ph is
\* -log10(concentration) rounded to two decimals; for 0.01 it is 2.00.
C11_StrongAcidRoundedLog ==
    ( /\ Done("calculate_ph")
      /\ call.substance_type = "strong_acid"
      /\ call.concentration > 0 ) =>
        /\ "error" \notin DOMAIN result
        /\ result.ph % Pow10(RoundDigits - PhDigits) = 0
        /\ Nearest(result.ph \div Pow10(RoundDigits - PhDigits),
                   -log10(call.concentration)[1], Pow10(RoundDigits - PhDigits))
        /\ call.concentration = 100 => result.ph = 2 * Scale

C11_Witness ==
    /\ Done("calculate_ph")
    /\ call.substance_type = "strong_acid"
    /\ call.concentration = 2 * Scale
    /\ result.ph = -3000

\* C12: for strong_base and concentration > 0, poh is -log10(concentration)
\* and ph is 14 - poh (to the two decimals reported; 0.01 gives poh 2.00 and
\* ph 12.00), and every successful result has ph + poh = 14.
C12_PhPlusPohIs14 ==
    ( /\ Done("calculate_ph")
      /\ "error" \notin DOMAIN result ) =>
        /\ result.ph + result.poh = PhPlusPoh * Scale
        /\ ( /\ call.substance_type = "strong_base"
             /\ call.concentration > 0 ) =>
               /\ result.poh = Round(-log10(call.concentration)[1], PhDigits)
               /\ result.ph = PhPlusPoh * Scale - result.poh

\* C13: every buffer_calculator call that succeeds returns an acid and a base
\* concentration that are both non-negative and sum to total_concentration
\* exactly.
C13_NonNegativeSumExact ==
    ( /\ Done("buffer_calculator")
      /\ "error" \notin DOMAIN result ) =>
        /\ result.acid_concentration >= 0
        /\ result.base_concentration >= 0
        /\ result.acid_concentration + result.base_concentration
             = call.total_concentration

C15_BothSuppliedFails ==
    ( /\ Done("dilution_calculator")
      /\ call.final_concentration # None
      /\ call.final_volume # None ) =>
        /\ "error" \in DOMAIN result
        /\ "final_volume" \notin DOMAIN result

\* C16: with neither final_concentration nor final_volume supplied,
\* dilution_calculator fails and returns no final concentration, no final
\* volume and no solvent_to_add.
C16_NeitherSuppliedFails ==
    ( /\ Done("dilution_calculator")
      /\ call.final_concentration = None
      /\ call.final_volume = None ) =>
        result = [error |-> "Must provide either final_concentration or final_volume"]

C16_Witness ==
    /\ Done("dilution_calculator")
    /\ call.final_concentration = None
    /\ call.final_volume = None
    /\ DOMAIN result = {"error"}

\* exactly one of the two is supplied
ExactlyOne ==
    (call.final_concentration = None) # (call.final_volume = None)

\* C17 as stated: with exactly one of c2/v2 supplied the returned record
\* satisfies c1*v1 = c2*v2 and solvent_to_add = v2 - v1, and echoes c1 and v1.
C17_DerivedKeepsProduct ==
    ( /\ Done("dilution_calculator")
      /\ ExactlyOne ) =>
        /\ "error" \notin DOMAIN result
        /\ result.initial_concentration = call.initial_concentration
        /\ result.initial_volume = call.initial_volume
        /\ result.initial_concentration * result.initial_volume
             = result.final_concentration * result.final_volume
        /\ result.solvent_to_add = result.final_volume - result.initial_volume

\* C17 amended: with exactly one of c2/v2 supplied, and that one non-zero, the
\* missing one is c1*v1 divided by the supplied one, rounded to four decimal
\* places; the supplied one, c1 and v1 are echoed; solvent_to_add is
\* c1*v1/c2 - v1 rounded to four decimal places when c2 is given and v2 - v1
\* when v2 is given; c1 = 10, v1 = 1, c2 = 1 gives v2 = 10, solvent_to_add = 9.
C17_DerivedRounded ==
    ( /\ Done("dilution_calculator")
      /\ ExactlyOne
      /\ Some(0) \notin {call.final_concentration, call.final_volume} ) =>
        /\ "error" \notin DOMAIN result
        /\ result.initial_concentration = call.initial_concentration
        /\ result.initial_volume = call.initial_volume
        /\ (call.final_concentration # None) =>
             /\ result.final_concentration = call.final_concentration[1]
             /\ Nearest(result.final_volume,
                        call.initial_concentration * call.initial_volume,
                        call.final_concentration[1])
             /\ Nearest(result.solvent_to_add,
                        call.initial_concentration * call.initial_volume
                          - call.initial_volume * call.final_concentration[1],
                        call.final_concentration[1])
        /\ (call.final_volume # None) =>
             /\ result.final_volume = call.final_volume[1]
             /\ Nearest(result.final_concentration,
                        call.initial_concentration * call.initial_volume,
                        call.final_volume[1])
             /\ result.solvent_to_add = call.final_volume[1] - call.initial_volume
        /\ ( /\ call.initial_concentration = 10 * Scale
             /\ call.initial_volume = Scale
             /\ call.final_concentration = Some(Scale) ) =>
               /\ result.final_volume = 10 * Scale
               /\ result.solvent_to_add = 9 * Scale

C17_Witness ==
    /\ Done("dilution_calculator")
    /\ call.initial_concentration = 10 * Scale
    /\ call.initial_volume = Scale
    /\ call.final_concentration = Some(Scale)
    /\ call.final_volume = None
    /\ result.final_volume = 10 * Scale
    /\ result.solvent_to_add = 9 * Scale

\* C18: no engine operation raises to its caller: every call that has
\* returned, whatever its input, returned a record, with an error message when
\* it failed; and a call that returns after a failed one returns what the same
\* call returns at any other time.
C18_NeverRaisesFailureForgotten ==
    /\ \A e \in returned :
         /\ "raised" \notin DOMAIN e.result
         /\ IsFailure(e.result) => "error" \in DOMAIN e.result
    /\ ( /\ last # NoReturn
         /\ last.context = "after_failure" ) =>
           \A e \in returned : e.call = last.call => e.result = last.result

\* a success returned after a malformed equation, a zero concentration and a
\* zero final concentration have each returned an error
C18_Witness ==
    /\ last # NoReturn
    /\ last.context = "after_failure"
    /\ last.call.op = "balance_equation"
    /\ last.result.is_balanced
    /\ \E e \in returned :
         /\ e.call.op = "balance_equation"
         /\ "error" \in DOMAIN e.result
    /\ \E e \in returned :
         /\ e.call.op = "calculate_ph"
         /\ "error" \in DOMAIN e.result
    /\ \E e \in returned :
         /\ e.call.op = "dilution_calculator"
         /\ e.result = [error |-> "float division by zero"]

C20_OneComputationPerKey ==
    \A c, d \in Callers :
        ( /\ c # d
          /\ frames[c] # NoCall
          /\ frames[c].op = "balance_equation" ) => frames[d] # frames[c]

\* the arrow character
Arrow == "U+2192"

\* a species of the coefficient map m as it is shown: prefixed by its
\* coefficient exactly when the coefficient is not 1
Shown(s, m) == (IF m[s] = 1 THEN <<>> ELSE <<ToString(m[s])>>) \o s

\* the species of m in every order
Orders(m) ==
    {o \in [1..Cardinality(DOMAIN m) -> DOMAIN m] :
        \A i, j \in DOMAIN o : o[i] = o[j] => i = j}

RECURSIVE Joined(_, _)
Joined(o, m) ==
    IF Len(o) = 0 THEN <<>>
    ELSE IF Len(o) = 1 THEN Shown(o[1], m)
    ELSE Shown(o[1], m) \o <<" ", "+", " ">> \o Joined(Tail(o), m)

\* text is the species of R joined by " + ", sep, the species of P joined by
\* " + "
RenderedWith(text, R, P, sep) ==
    \E r \in Orders(R), p \in Orders(P) :
        text = Joined(r, R) \o <<" ">> \o sep \o <<" ">> \o Joined(p, P)

\* C22: the rendered form of a balanced equation is the reactants joined by
\* " + ", an arrow, the products joined by " + ", each species prefixed by its
\* coefficient exactly when the coefficient is not 1.
C22_RenderedWithArrow ==
    (Done("balance_equation") /\ result.is_balanced) =>
        RenderedWith(result.balanced, result.reactants, result.products,
                     <<Arrow>>)

\* C25: every balance_equation result has one of two shapes: success
\* (is_balanced, the two coefficient maps, no error) or failure (not
\* is_balanced, an error, no coefficient maps, balanced equal to the input
\* text); in both, original is the input text.
C25_TwoShapes ==
    Done("balance_equation") =>
        /\ result.original = call.equation
        /\ IF result.is_balanced
           THEN DOMAIN result =
                  {"original", "balanced", "reactants", "products", "is_balanced"}
           ELSE /\ DOMAIN result =
                     {"original", "balanced", "error", "is_balanced"}
                /\ result.balanced = call.equation

\* a text with surrounding whitespace that fails
C25_Witness ==
    /\ Done("balance_equation")
    /\ ~result.is_balanced
    /\ call.equation # <<>>
    /\ call.equation[1] = " "
    /\ result.balanced = call.equation
    /\ result.original = call.equation

\* C21: the cache has bounded capacity with least-recently-used eviction: it
\* holds fewer entries than the distinct compounds looked up (a capacity below
\* MaxCid), the least recently used one having been evicted.
C21_BoundedCapacity ==
    Cardinality(DOMAIN cache) < MaxCid

\* C26: a cid is in the cache only if a fetch of it has succeeded; a failed
\* fetch returns None and leaves the cache as it was; a call for a cached cid
\* returns the cached info without contacting PubChem; a call for any other
\* cid contacts PubChem.
C26_CachesOnlySuccesses ==
    /\ DOMAIN cache \subseteq succeeded
    /\ lookup # NoLookup =>
         /\ (lookup.cid \in DOMAIN lookup.before) =>
              /\ ~lookup.contacted
              /\ lookup.returned = Some(lookup.before[lookup.cid])
              /\ cache = lookup.before
         /\ (lookup.cid \notin DOMAIN lookup.before) =>
              /\ lookup.contacted
              /\ (lookup.returned = None) => cache = lookup.before
              /\ (lookup.returned # None) =>
                   /\ DOMAIN cache = DOMAIN lookup.before \cup {lookup.cid}
                   /\ cache[lookup.cid] = lookup.returned[1]
                   /\ \A k \in DOMAIN lookup.before : cache[k] = lookup.before[k]

\* a cached cid is asked for again while another cid is still not cached
C26_Witness ==
    /\ lookup # NoLookup
    /\ lookup.cid \in DOMAIN lookup.before
    /\ lookup.returned = Some("data-1")
    /\ ~lookup.contacted
    /\ \E k \in Cids : k \notin DOMAIN cache

\* C29: at most one AIChemistryService is created: a call with an empty key
\* while there is no instance raises and leaves none; the first call with a
\* non-empty key creates the instance; every later call returns that instance
\* whatever key it passes.
C29_AtMostOneInstance ==
    /\ Len(constructions) <= 1
    /\ (ai_service = None) <=> (constructions = <<>>)
    /\ got # NoGot =>
         /\ (got.before = None /\ got.api_key \in {None, Some("")}) =>
              /\ "raised" \in DOMAIN got.outcome
              /\ ai_service = None
         /\ (got.before = None /\ got.api_key \notin {None, Some("")}) =>
              /\ "returned" \in DOMAIN got.outcome
              /\ ai_service = Some(got.outcome.returned)
              /\ constructions = <<got.api_key>>
         /\ (got.before # None) =>
              /\ got.outcome = [returned |-> got.before[1]]
              /\ ai_service = got.before

\* a later call with another key gets the instance built with the first key
C29_Witness ==
    /\ got # NoGot
    /\ got.before # None
    /\ constructions = <<Some("key-a")>>
    /\ got.api_key = Some("key-b")
    /\ got.outcome = [returned |-> ai_service[1]]

\* element i meets every criterion that is supplied
Meets(i, criteria) ==
    LET elem == PeriodicTable[i] IN
    /\ "group" \in DOMAIN criteria => elem.group_id = criteria.group
    /\ "period" \in DOMAIN criteria => elem.period = criteria.period
    /\ "block" \in DOMAIN criteria => elem.block = criteria.block
    /\ "is_metal" \in DOMAIN criteria =>
         (elem.class = "metal") = criteria.is_metal

\* C23: search_elements returns exactly the elements that meet every supplied
\* criterion among group, period, block and is_metal; every element returned
\* for {period: 2, is_metal: False} is one of C, N, O, F, Ne.
C23_ExactlyTheMatches ==
    Done("search_elements") =>
        LET found == {result.elements[k].atomic_number :
                         k \in 1..Len(result.elements)}
            names == {result.elements[k].symbol : k \in 1..Len(result.elements)}
        IN  /\ found = {i \in 1..MaxZ : Meets(i, call.criteria)}
            /\ (call.criteria = [period |-> 2, is_metal |-> FALSE]) =>
                 names \subseteq {"C", "N", "O", "F", "Ne"}

\* q occurs in name as a run of consecutive characters, case ignored
Contains(name, q) ==
    \E k \in 0..(Len(name) - Len(q)) :
        \A j \in 1..Len(q) : Lower(name[k + j]) = Lower(q[j])

\* C24: with an empty query search_inventory filters nothing and returns at
\* most 50 materials; with a non-empty query it returns exactly the materials
\* whose name contains the query, case ignored.
C24_SubstringOrLimit ==
    Done("search_inventory") =>
        IF call.q = <<>>
        THEN /\ result.materials \subseteq 1..call.rows
             /\ Cardinality(result.materials) <= SearchLimit
             /\ call.rows <= SearchLimit => result.materials = 1..call.rows
        ELSE result.materials =
               {id \in 1..call.rows : Contains(NameOf(id), call.q)}

\* C27: analyze_compound never raises to its caller: for every properties
\* dictionary, analysis type and model answer it returns a dictionary, the
\* analysis when the model answers valid JSON for a known analysis type and a
\* dictionary with an 'error' entry otherwise; the /analyze-compound endpoint
\* answers 200 when the model answers valid JSON.
C27_NeverRaises ==
    Done("analyze_compound") =>
        LET answered == call.analysis_type \in AnalysisTypes
                          /\ call.model = "json"
        IN  IF call.via = "endpoint"
            THEN answered => result.response.status_code = 200
            ELSE /\ "raised" \notin DOMAIN result.outcome
                 /\ call.properties = "dict" =>
                      (answered <=> "error" \notin DOMAIN result.outcome)

\* C28: without RDKit the structure-analysis module still loads, with
\* RDKIT_AVAILABLE = False and the singleton created, and each of the four
\* structure operations fails per call with ImportError "RDKit is not
\* installed.".
C28_LoadsThenFailsPerCall ==
    (Done("structure_operation") /\ ~call.rdkit_installed) =>
        /\ result.module.raised = None
        /\ result.module.RDKIT_AVAILABLE = FALSE
        /\ "structure_analysis_service" \in result.module.names
        /\ result.outcome = raised("RDKit is not installed.")

\* every item's material is in the table
AllFound(items) ==
    \A k \in 1..Len(items) : first_material(items[k].material_id) # None

\* the material of the item has at least percentage/100 of the batch in stock
InStock(item, total) ==
    LET level == first_material(item.material_id)[1].inventory_level
    IN  level # None /\ level[1] * Percent >= item.percentage * total

\* C30: when every material is found analyze_formula reports "OK" exactly
\* when missing_materials is empty, exactly when every item's material has
\* inventory_level >= (percentage/100) * total_batch_weight_kg, and
\* "Insufficient Stock" otherwise; when a material is not found it fails with
\* 404 and no analysis.
C30_StatusMatchesStock ==
    Done("analyze_formula") =>
        IF AllFound(call.items)
        THEN /\ "inventory_status" \in DOMAIN result
             /\ result.inventory_status \in {"OK", "Insufficient Stock"}
             /\ result.inventory_status = "OK"
                  <=> result.missing_materials = <<>>
             /\ result.inventory_status = "OK"
                  <=> \A k \in 1..Len(call.items) :
                         InStock(call.items[k], call.total_batch_weight_kg)
        ELSE /\ "status_code" \in DOMAIN result
             /\ result.status_code = 404

====
